---- MODULE Spec2Model ----
(***************************************************************************)
(* TaskMaster: the Task Synchronization Engine (TaskwarriorService in      *)
(* src/server/services/openai.ts, the retrying version at lines 171-578)   *)
(* and the REST routes that call it (src/server/routes.ts).                *)
(*                                                                         *)
(* The engine shells out to the task tool.  The tool is the environment:   *)
(* it owns a store of tasks; its exports are answered from a view that may *)
(* lag behind the store (a write need not be visible to the next read).    *)
(***************************************************************************)
EXTENDS Integers, Sequences, FiniteSets, TLC

\* ------------------------------------------------------------------ bounds

\* Tasks the tool's store may hold when the request arrives.
MaxTasks == 1

\* Largest clock value Date.now() takes in the mapper specification.
MaxNow == 1

\* ------------------------------------------------------------------ values

\* JavaScript null / undefined of a string-valued field.
NULL == "null"

\* A falsy string field: null, undefined or "".
Falsy(x) == x = NULL \/ x = ""

\* An absent (null / undefined) array-valued field, and a present one.
NoTags == << >>

SomeTags(S) == << S >>

\* The elements of an optional tag array.
TagSet(t) == IF t = NoTags THEN {} ELSE t[1]

Descs == {"d1", "d2"}

Projects == {"p1"}

Tags == {"t1", "t2"}

\* The uuids the tool hands out, in order, and the transient numeric ids its
\* "Created task <n>" message reports (idMatch[1] is a string).
Uuids == << "u1", "u2", "u3", "u4" >>

Nums == << "1", "2", "3", "4" >>

\* An identifier no task of the store has.
AbsentId == "u9"

\* The ids `tw_${Date.now()}` of convertTaskwarriorTask, by clock value.
TwIds == << "tw_0", "tw_1", "tw_2" >>

\* ------------------------------------------------------------------ state

VARIABLES
    store,        \* the tool's tasks, in the order its export lists them
    view,         \* what the tool's exports are answered from (may lag behind store)
    pc,           \* where the operation in progress stands ("idle" when none is)
    op,           \* the operation in progress: its kind, target id and request
                  \* and the store as it was before the operation began
    taskId,       \* createTask: the transient id taken from the write's output
    retries,      \* the read-back loop's counter
    result,       \* what the operation returned or threw
    httpStatus,   \* the status the route answered with (0: none yet)
    invocations,  \* the command lines the operation has run, in order
    readLog,      \* outcome of each keyed read-back of the operation, in order
    listings,     \* full listings (getTasks) the operation has made
    lastExec,     \* the last process run: exit status, stdout, stderr, and
                  \* what executeCommand returned for it
    now,          \* Date.now()
    twTask,       \* mapper specification: a record of the tool's JSON export
    mapped,       \* mapper specification: convertTaskwarriorTask's result
    conn,         \* session bridge: one terminal connection as the server holds it
    terminal,     \* the browser's Terminal component and its socket
    taskrc,       \* the tool-config file: its lines (none while it does not
                  \* exist) and how often the server has written it
    synth,        \* synthesis specification: a request and its invocation
    pair          \* two updateTask calls on one task, served at the same time

vars == << store, view, pc, op, taskId, retries, result, httpStatus, invocations,
           readLog, listings, lastExec, now, twTask, mapped,
           conn, terminal, taskrc, synth, pair >>

\* ------------------------------------------------------------------ result mapping

\* One record of the tool's JSON export, for a task of the store.  The tool
\* leaves out the fields a task does not have (project, tags).
ExportJson(t) ==
    [uuid        |-> t.uuid,
     description |-> t.description,
     status      |-> t.status,
     project     |-> t.project,
     tags        |-> IF t.tags = {} THEN NoTags ELSE SomeTags(t.tags)]

\* convertTaskwarriorTask: an export record to a TaskWithMetadata.
\* (priority, the dates, annotations and urgency are not modelled.)
convertTaskwarriorTask(tw, clock) ==
    [id          |-> IF Falsy(tw.uuid) THEN TwIds[clock + 1] ELSE tw.uuid,
     description |-> IF Falsy(tw.description) THEN "" ELSE tw.description,
     status      |-> IF Falsy(tw.status) THEN "pending" ELSE tw.status,
     project     |-> IF Falsy(tw.project) THEN NULL ELSE tw.project,
     tags        |-> tw.tags,
     tagsList    |-> TagSet(tw.tags)]

\* ------------------------------------------------------------------ command synthesis

\* One component of a command line.  The first component of a command is its
\* head: the sub-command and the uuid:<id> filter before it (NULL: no filter).
Comp(k, v) == [k |-> k, v |-> v, tags |-> {}]

\* The `+tag +tag ...` component.
TagComp(S) == [k |-> "+tags", v |-> NULL, tags |-> S]

\* A component that is pushed only when its value is truthy.
Opt(k, v) == IF Falsy(v) THEN << >> ELSE << Comp(k, v) >>

\* A due value.  kind "none": absent, null or "".  kind "Date": a Date object.
\* The others are strings: "iso" is YYYY-MM-DDTHH:MM:SS.sssZ (what the client's
\* JSON.stringify makes of a Date), "date" is YYYY-MM-DD, "local" is
\* YYYY-MM-DD HH:MM without a zone, "text" is one the Date constructor cannot
\* parse ("tomorrow 10:30", "eom").  day counts days and minute the minutes
\* of the day (HH:MM); zone is the server's offset from UTC in minutes, which
\* the Date constructor applies to a string without a zone.
NoDue == [kind |-> "none", day |-> 0, minute |-> 0, zone |-> 0]

\* YYYY-MM-DD of day 0, 1, 2, 3.
Dates == << "2024-04-30", "2024-05-01", "2024-05-02", "2024-05-03" >>

\* new Date(due).getTime(), or due.getTime(), in minutes.  Not a number
\* (an Invalid Date) for "text".
timeValue(due) ==
    IF due.kind = "date" THEN due.day * 1440
    ELSE IF due.kind = "local" THEN due.day * 1440 + due.minute - due.zone
    ELSE due.day * 1440 + due.minute

\* dueDate.toISOString() throws RangeError on an Invalid Date.
toISOStringThrows(due) == due.kind = "text"

\* dueDate.toISOString().split('T')[0]: the UTC date.
isoDate(due) == Dates[(timeValue(due) \div 1440) + 1]

\* `due:<date>`, pushed when the due value is truthy (and toISOString
\* returned: see toISOStringThrows).
dueComponent(due) ==
    IF due.kind = "none" \/ toISOStringThrows(due) THEN << >>
    ELSE << Comp("due", isoDate(due)) >>

\* createTaskwarriorCommand: `task add "<description>" project:... +tags`.
createTaskwarriorCommand(task) ==
    << Comp("add", NULL) >>
      \o Opt("text", task.description)
      \o Opt("project", task.project)
      \o dueComponent(task.due)
      \o (IF task.tags # NoTags /\ TagSet(task.tags) # {}
          THEN << TagComp(TagSet(task.tags)) >> ELSE << >>)

\* The -ALLTAGS invocation updateTask runs first when the update has tags.
clearTagsCommand(id) == << Comp("modify", id), Comp("-ALLTAGS", NULL) >>

\* A variant of updateHead that keeps the generic modify for every status.
updateHeadModify(id, updates) == Comp("modify", id)

\* The head of updateTask's main invocation: done / delete replace modify.
updateHead(id, updates) ==
    IF updates.status = "completed" THEN Comp("done", id)
    ELSE IF updates.status = "deleted" THEN Comp("delete", id)
    ELSE Comp("modify", id)

\* The status:<value> component: pushed for every other truthy status.
updateStatus(updates) ==
    IF Falsy(updates.status) \/ updates.status \in {"completed", "deleted"}
    THEN << >> ELSE << Comp("status", updates.status) >>

\* The main invocation updateTask synthesizes.
updateCommand(id, updates) ==
    << updateHead(id, updates) >>
      \o Opt("description", updates.description)
      \o Opt("project", updates.project)
      \o dueComponent(updates.due)
      \o updateStatus(updates)
      \o (IF updates.tags # NoTags /\ TagSet(updates.tags) # {}
          THEN << TagComp(TagSet(updates.tags)) >> ELSE << >>)

\* deleteTask's invocation.
deleteCommand(id) == << Comp("delete", id), Comp("rc.confirmation=off", NULL) >>

\* getTask's and getTasks' invocations.
exportCommand(key) == << Comp("export", key) >>

\* ------------------------------------------------------------------ the tool

\* Whether command cmd has a component k, and that component.
Has(cmd, k) == \E i \in 1..Len(cmd) : cmd[i].k = k

Get(cmd, k) == cmd[CHOOSE i \in 1..Len(cmd) : cmd[i].k = k]

\* The filter uuid:<key> selects a task by its uuid; a transient numeric id in
\* its place selects the task of that number.
Selects(key, t) == t.uuid = key \/ t.num = key

\* The task `add` stores.
Added(cmd, st) ==
    [uuid        |-> Uuids[Len(st) + 1],
     num         |-> Nums[Len(st) + 1],
     description |-> Get(cmd, "text").v,
     project     |-> IF Has(cmd, "project") THEN Get(cmd, "project").v ELSE NULL,
     tags        |-> IF Has(cmd, "+tags") THEN Get(cmd, "+tags").tags ELSE {},
     status      |-> "pending"]

\* A task after modify / done / delete with the command's modifications.
Modified(cmd, t) ==
    [uuid        |-> t.uuid,
     num         |-> t.num,
     description |-> IF Has(cmd, "description") THEN Get(cmd, "description").v
                     ELSE t.description,
     project     |-> IF Has(cmd, "project") THEN Get(cmd, "project").v ELSE t.project,
     tags        |-> (IF Has(cmd, "-ALLTAGS") THEN {} ELSE t.tags)
                       \cup (IF Has(cmd, "+tags") THEN Get(cmd, "+tags").tags ELSE {}),
     status      |-> IF cmd[1].k = "done" THEN "completed"
                     ELSE IF cmd[1].k = "delete" THEN "deleted"
                     ELSE IF Has(cmd, "status") THEN Get(cmd, "status").v
                     ELSE t.status]

\* The store after a successful run of cmd.
ToolStore(cmd, st) ==
    IF cmd[1].k = "add" THEN Append(st, Added(cmd, st))
    ELSE IF cmd[1].k \in {"modify", "done", "delete"}
    THEN [i \in 1..Len(st) |->
            IF Selects(cmd[1].v, st[i]) THEN Modified(cmd, st[i]) ELSE st[i]]
    ELSE st

\* What a successful run of cmd prints, without the white space around it:
\* the JSON array of an export (answered from the view vw), the "Created
\* task <n>." message of an add when the new-id hint is on, free text otherwise.
Body(kind, num, tasks) == [kind |-> kind, num |-> num, tasks |-> tasks]

ToolPrints(cmd, st, vw, hint) ==
    IF cmd[1].k = "export"
    THEN LET sel == SelectSeq(vw, LAMBDA t : cmd[1].v = NULL \/ Selects(cmd[1].v, t))
         IN  Body("json", NULL, [i \in 1..Len(sel) |-> ExportJson(sel[i])])
    ELSE IF cmd[1].k = "add" /\ hint THEN Body("created", Nums[Len(st) + 1], << >>)
    ELSE Body("text", NULL, << >>)

\* ------------------------------------------------------------------ process invocation

\* A string the process wrote: lead / trail count the white space around body.
Str(lead, body, trail) == [lead |-> lead, body |-> body, trail |-> trail]

EmptyStr == Str(0, Body("none", NULL, << >>), 0)

\* String.prototype.trim: a string of white space alone trims to "".
Trim(s) == Str(0, s.body, 0)

\* !output
IsEmpty(s) == s = EmptyStr

\* White space the tool prints around its output: a blank line before it and
\* the line end after it.
Pads == { << 1, 1 >> }

\* A variant of executeCommand that treats any stderr text as a failure.
executeCommandStrict(exit, stdout, stderr) ==
    IF exit # 0 \/ stderr THEN [threw |-> TRUE, out |-> EmptyStr]
    ELSE [threw |-> FALSE, out |-> Trim(stdout)]

\* executeCommand on the process's outcome: exec rejects when the process
\* could not be spawned or exited non-zero, and executeCommand rethrows;
\* otherwise stderr is logged and the trimmed stdout returned.
executeCommand(exit, stdout, stderr) ==
    IF exit # 0 THEN [threw |-> TRUE, out |-> EmptyStr]
    ELSE [threw |-> FALSE, out |-> Trim(stdout)]

\* One run of cmd through executeCommand: exit status ex, stderr text or none,
\* white space pad around stdout; the record of the run.
Run(cmd, ex, err, pad, hint) ==
    LET stdout == IF ex = 0
                  THEN Str(pad[1], ToolPrints(cmd, store, view, hint), pad[2])
                  ELSE EmptyStr
        ret    == executeCommand(ex, stdout, err)
    IN  [exit |-> ex, stdout |-> stdout, stderr |-> err,
         threw |-> ret.threw, out |-> ret.out]

\* JSON.parse(output) of an export's output: the array of records.
ParseTasks(out) == out.body.tasks

\* A variant of CreatedId that takes the first transient id when the output
\* has no "Created task <n>" message.
CreatedIdGuess(out) == IF out.body.kind = "created" THEN out.body.num ELSE Nums[1]

\* output.match(/Created task (\d+)/): the number, or NULL when there is no match.
CreatedId(out) == IF out.body.kind = "created" THEN out.body.num ELSE NULL

\* ------------------------------------------------------------------ results and routes

\* What an engine operation gave its caller.
Returned(task) == [kind |-> "task", task |-> task]

ReturnedNull == [kind |-> "null"]

ReturnedBool(b) == [kind |-> "bool", ok |-> b]

ReturnedList(tasks) == [kind |-> "list", tasks |-> tasks]

Threw == [kind |-> "error"]

NoResult == [kind |-> "none"]

\* api.post("/tasks"): 201 with the task, 500 on an error.
postTaskRoute(res) == IF res.kind = "error" THEN 500 ELSE 201

\* api.get("/tasks/:id"): 404 when getTask gave null.
getTaskRoute(res) ==
    IF res.kind = "error" THEN 500 ELSE IF res.kind = "null" THEN 404 ELSE 200

\* api.get("/tasks").
getTasksRoute(res) == IF res.kind = "error" THEN 500 ELSE 200

\* api.patch("/tasks/:id"): 404 when updateTask gave null.
patchTaskRoute(res) ==
    IF res.kind = "error" THEN 500 ELSE IF res.kind = "null" THEN 404 ELSE 200

\* api.delete("/tasks/:id"): 404 when deleteTask gave false.
deleteTaskRoute(res) ==
    IF res.kind = "error" THEN 500
    ELSE IF res.kind = "bool" /\ ~res.ok THEN 404 ELSE 204

Route(kind, res) ==
    CASE kind = "create" -> postTaskRoute(res)
      [] kind = "update" -> patchTaskRoute(res)
      [] kind = "delete" -> deleteTaskRoute(res)
      [] kind = "get"    -> getTaskRoute(res)
      [] OTHER           -> getTasksRoute(res)

\* ------------------------------------------------------------------ engine operations

\* The read-back bounds: `let retries = 5` of createTask and of updateTask.
CreateRetries == 5

UpdateRetries == 5

\* getTask on the record r of its export's run: null on empty output or an
\* empty array, else the first record, converted.
getTask(r) ==
    IF r.threw THEN Threw
    ELSE IF IsEmpty(r.out) THEN ReturnedNull
    ELSE IF Len(ParseTasks(r.out)) > 0
         THEN Returned(convertTaskwarriorTask(ParseTasks(r.out)[1], now))
         ELSE ReturnedNull

\* getTasks on the record r of its export's run.
getTasks(r) ==
    IF r.threw THEN Threw
    ELSE IF IsEmpty(r.out) THEN ReturnedList(<< >>)
    ELSE ReturnedList([i \in 1..Len(ParseTasks(r.out)) |->
                         convertTaskwarriorTask(ParseTasks(r.out)[i], now)])

\* allTasks.find(...): the first of the tasks hits, or nothing.
FindFirst(hits) == IF Len(hits) > 0 THEN Returned(hits[1]) ELSE ReturnedNull

\* A variant of createMatch that looks at the description only.
createMatchDescription(task, t) == t.description = task.description

\* createTask's fallback match: same description and, if the request names a
\* project, the same project.
createMatch(task, t) ==
    t.description = task.description
      /\ (Falsy(task.project) \/ t.project = task.project)

\* updateTask's fallback match.
updateMatch(id, t) == t.id = id

\* createTask's "minimal response with the data we know".
createMinimal(id, task) ==
    [id          |-> id,
     description |-> task.description,
     project     |-> IF Falsy(task.project) THEN NULL ELSE task.project,
     tags        |-> task.tags,
     status      |-> "pending"]

\* updateTask's "minimal object".
updateMinimal(id, updates) ==
    [id          |-> id,
     description |-> IF Falsy(updates.description) THEN "Unknown task"
                     ELSE updates.description,
     project     |-> IF Falsy(updates.project) THEN NULL ELSE updates.project,
     tags        |-> updates.tags,
     status      |-> IF Falsy(updates.status) THEN "pending" ELSE updates.status]

\* A variant of createFallback that gives up when the listing has no match
\* ("Unable to retrieve created task").
createFallbackThrows(id, task, list) ==
    IF list.kind = "error" THEN Threw
    ELSE LET m == FindFirst(SelectSeq(list.tasks, LAMBDA t : createMatch(task, t)))
         IN  IF m.kind = "task" THEN m ELSE Threw

\* What createTask returns once the fallback listing list has been read.
createFallback(id, task, list) ==
    IF list.kind = "error" THEN Threw
    ELSE LET m == FindFirst(SelectSeq(list.tasks, LAMBDA t : createMatch(task, t)))
         IN  IF m.kind = "task" THEN m ELSE Returned(createMinimal(id, task))

\* What updateTask returns once the fallback listing list has been read.
updateFallback(id, updates, list) ==
    IF list.kind = "error" THEN Threw
    ELSE LET m == FindFirst(SelectSeq(list.tasks, LAMBDA t : updateMatch(id, t)))
         IN  IF m.kind = "task" THEN m ELSE Returned(updateMinimal(id, updates))

\* deleteTask's return value after a run that did not throw.
deleteResult == ReturnedBool(TRUE)

\* ------------------------------------------------------------------ requests

\* A request body; the fields it leaves out are NULL / NoTags / NoDue.
Req(d, p, st, tg) ==
    [description |-> d, project |-> p, status |-> st, tags |-> tg, due |-> NoDue]

NoReq == Req(NULL, NULL, NULL, NoTags)

\* Bodies insertTaskSchema accepts (a description of at least one character).
CreateReqs ==
    { Req(d, p, NULL, tg) :
        d \in Descs, p \in {NULL} \cup Projects, tg \in {NoTags, SomeTags({"t1"})} }

\* Bodies of PATCH /tasks/:id.
UpdateReqs ==
    { Req(d, p, st, tg) :
        d \in {NULL, "d2"}, p \in {NULL} \cup Projects,
        st \in {NULL, "completed", "deleted", "waiting"},
        tg \in {NoTags} \cup { SomeTags(S) : S \in SUBSET Tags } }

\* Identifiers a caller targets: the first task's uuid, and one of no task.
TargetIds == { Uuids[1], AbsentId }

\* What a task of the store may be, apart from its identifiers.
TaskFields ==
    [description : Descs, project : {NULL} \cup Projects, tags : {{}, {"t1"}}]

\* Stores the tool may hold when the request arrives: up to MaxTasks pending
\* tasks, numbered in the order they were added.  (Its exports may then still
\* lag: Init lets the view be any prefix of the store.)
InitStores ==
    UNION { { [i \in 1..n |->
                 [uuid |-> Uuids[i], num |-> Nums[i],
                  description |-> f[i].description, project |-> f[i].project,
                  tags |-> f[i].tags, status |-> "pending"]] :
              f \in [1..n -> TaskFields] } : n \in 0..MaxTasks }

\* ------------------------------------------------------------------ components at rest

\* No terminal connection has been accepted by the server.
NoConn == [phase |-> "none"]

\* The Terminal component is not mounted.
NoTerminal == [phase |-> "none"]

\* The tool-config file (data/taskwarrior/.taskrc) does not exist: no lines,
\* and the server has not written it.
NoFile == [content |-> << >>, writes |-> 0]

\* No invocation is being synthesized.
NoSynth == [phase |-> "none"]

NoPair == [calls |-> << >>, log |-> << >>]

\* ------------------------------------------------------------------ actions

NoExec == [exit |-> 0, stdout |-> EmptyStr, stderr |-> FALSE,
           threw |-> FALSE, out |-> EmptyStr]

Init ==
    /\ store \in InitStores
    /\ view \in { SubSeq(store, 1, k) : k \in 0..Len(store) }
    /\ pc = "idle"
    /\ op = [kind |-> "none", id |-> NULL, req |-> NoReq, before |-> << >>]
    /\ taskId = NULL
    /\ retries = 0
    /\ result = NoResult
    /\ httpStatus = 0
    /\ invocations = << >>
    /\ readLog = << >>
    /\ listings = 0
    /\ lastExec = NoExec
    /\ now = 0
    /\ twTask = ExportJson([uuid |-> NULL, description |-> NULL, status |-> NULL,
                            project |-> NULL, tags |-> {}])
    /\ mapped = NoResult
    /\ conn = NoConn
    /\ terminal = NoTerminal
    /\ taskrc = NoFile
    /\ synth = NoSynth
    /\ pair = NoPair

\* What the engine leaves alone: the mapper on its own and the other components.
restVars == << conn, terminal, taskrc, synth, pair >>

mapperVars == << now, twTask, mapped, restVars >>

\* A request arrives: the route calls the engine operation kind on (id, req).
Begin(kind, id, req, first) ==
    /\ pc = "idle"
    /\ op' = [kind |-> kind, id |-> id, req |-> req, before |-> store]
    /\ pc' = first
    /\ taskId' = NULL
    /\ retries' = 0
    /\ result' = NoResult
    /\ httpStatus' = 0
    /\ invocations' = << >>
    /\ readLog' = << >>
    /\ listings' = 0
    /\ lastExec' = NoExec
    /\ UNCHANGED << store, view, mapperVars >>

StartCreate == \E req \in CreateReqs : Begin("create", NULL, req, "c_write")

\* updateTask clears the tags first when the update carries a tags array.
StartUpdate ==
    \E id \in TargetIds, req \in UpdateReqs :
        Begin("update", id, req, IF req.tags # NoTags THEN "u_clear" ELSE "u_write")

StartDelete == \E id \in TargetIds : Begin("delete", id, NoReq, "d_write")

StartGet == \E id \in TargetIds : Begin("get", id, NoReq, "g_read")

StartList == Begin("list", NULL, NoReq, "l_read")

\* The process run r of cmd takes effect: a write that exits zero changes the
\* store; later exports see it once the view has caught up (Flush).
Exec(cmd, r) ==
    /\ lastExec' = r
    /\ invocations' = Append(invocations, cmd)
    /\ store' = IF r.exit = 0 THEN ToolStore(cmd, store) ELSE store
    /\ view' = view

\* The operation ends with res; the route answers.
Finish(res) ==
    /\ pc' = "done"
    /\ result' = res
    /\ httpStatus' = Route(op.kind, res)

\* The operation goes on at step next.
Goto(next) ==
    /\ pc' = next
    /\ UNCHANGED << result, httpStatus >>

\* The entry of a read-back loop `while (retries > 0 && !found)`.
Loop(n, read, list) == IF n > 0 THEN read ELSE list

\* The outcome of a keyed read-back, for the log.
Outcome(g) == IF g.kind = "task" THEN "hit" ELSE IF g.kind = "null" THEN "miss" ELSE "error"

\* Exit statuses of a process run (non-zero also stands for a failed spawn).
Exits == {0, 1}

histVars == << taskId, retries, readLog, listings >>

\* A variant of readBack whose misses cost no retry.
readBackUncounted(g, n) ==
    IF g.kind = "task" THEN [done |-> TRUE, res |-> g, retries |-> n]
    ELSE IF g.kind = "error" THEN [done |-> TRUE, res |-> Threw, retries |-> n]
    ELSE [done |-> FALSE, res |-> NoResult, retries |-> n]

\* A variant of readBack that goes on reading after a hit.
readBackNoReturn(g, n) ==
    IF g.kind = "error" THEN [done |-> TRUE, res |-> Threw, retries |-> n]
    ELSE [done |-> FALSE, res |-> NoResult, retries |-> n - 1]

\* One turn of a read-back loop, on getTask's answer g with n retries left:
\* a found task is returned at once, an error is thrown, a miss costs a retry.
readBack(g, n) ==
    IF g.kind = "task" THEN [done |-> TRUE, res |-> g, retries |-> n]
    ELSE IF g.kind = "error" THEN [done |-> TRUE, res |-> Threw, retries |-> n]
    ELSE [done |-> FALSE, res |-> NoResult, retries |-> n - 1]

\* createTask: run the add; take the transient id from its output.
CreateWrite ==
    /\ pc = "c_write"
    /\ \E ex \in Exits, err \in BOOLEAN, pad \in Pads, hint \in BOOLEAN :
         LET cmd == createTaskwarriorCommand(op.req)
             r   == Run(cmd, ex, err, pad, hint)
         IN  /\ Exec(cmd, r)
             /\ IF r.threw \/ CreatedId(r.out) = NULL
                THEN /\ Finish(Threw)
                     /\ UNCHANGED << taskId, retries >>
                ELSE /\ taskId' = CreatedId(r.out)
                     /\ retries' = CreateRetries
                     /\ Goto(Loop(CreateRetries, "c_read", "c_list"))
    /\ UNCHANGED << op, readLog, listings, mapperVars >>

\* A keyed read-back (after the fixed delay) by key; the loop goes on at
\* readPc, the fallback is at listPc.
ReadBack(key, readPc, listPc) ==
    \E ex \in Exits, err \in BOOLEAN, pad \in Pads :
        LET cmd == exportCommand(key)
            r   == Run(cmd, ex, err, pad, FALSE)
            g   == getTask(r)
            t   == readBack(g, retries)
        IN  /\ Exec(cmd, r)
            /\ readLog' = Append(readLog, Outcome(g))
            /\ retries' = t.retries
            /\ IF t.done THEN Finish(t.res)
               ELSE Goto(Loop(t.retries, readPc, listPc))

\* createTask: read the new task back by the transient id.
CreateReadBack ==
    /\ pc = "c_read"
    /\ ReadBack(taskId, "c_read", "c_list")
    /\ UNCHANGED << op, taskId, listings, mapperVars >>

\* The fallback's full listing: the run r of the export takes effect.
Listing(r) ==
    /\ Exec(exportCommand(NULL), r)
    /\ listings' = listings + 1

\* createTask: the fallback listing, then the minimal response.
CreateFallback ==
    /\ pc = "c_list"
    /\ \E ex \in Exits, err \in BOOLEAN, pad \in Pads :
         LET r == Run(exportCommand(NULL), ex, err, pad, FALSE)
         IN  /\ Listing(r)
             /\ Finish(createFallback(taskId, op.req, getTasks(r)))
    /\ UNCHANGED << op, taskId, retries, readLog, mapperVars >>

\* updateTask: `modify -ALLTAGS`, outside the try block: its error is thrown.
UpdateClearTags ==
    /\ pc = "u_clear"
    /\ \E ex \in Exits, err \in BOOLEAN, pad \in Pads :
         LET cmd == clearTagsCommand(op.id)
             r   == Run(cmd, ex, err, pad, FALSE)
         IN  /\ Exec(cmd, r)
             /\ IF r.threw THEN Finish(Threw) ELSE Goto("u_write")
    /\ UNCHANGED << op, histVars, mapperVars >>

\* updateTask: the main invocation.
UpdateWrite ==
    /\ pc = "u_write"
    /\ \E ex \in Exits, err \in BOOLEAN, pad \in Pads :
         LET cmd == updateCommand(op.id, op.req)
             r   == Run(cmd, ex, err, pad, FALSE)
         IN  /\ Exec(cmd, r)
             /\ IF r.threw
                THEN /\ Finish(Threw)
                     /\ UNCHANGED retries
                ELSE /\ retries' = UpdateRetries
                     /\ Goto(Loop(UpdateRetries, "u_read", "u_list"))
    /\ UNCHANGED << op, taskId, readLog, listings, mapperVars >>

\* updateTask: read the task back by its id.
UpdateReadBack ==
    /\ pc = "u_read"
    /\ ReadBack(op.id, "u_read", "u_list")
    /\ UNCHANGED << op, taskId, listings, mapperVars >>

\* updateTask: the fallback listing, then the minimal object.
UpdateFallback ==
    /\ pc = "u_list"
    /\ \E ex \in Exits, err \in BOOLEAN, pad \in Pads :
         LET r == Run(exportCommand(NULL), ex, err, pad, FALSE)
         IN  /\ Listing(r)
             /\ Finish(updateFallback(op.id, op.req, getTasks(r)))
    /\ UNCHANGED << op, taskId, retries, readLog, mapperVars >>

\* deleteTask.
DeleteWrite ==
    /\ pc = "d_write"
    /\ \E ex \in Exits, err \in BOOLEAN, pad \in Pads :
         LET cmd == deleteCommand(op.id)
             r   == Run(cmd, ex, err, pad, FALSE)
         IN  /\ Exec(cmd, r)
             /\ Finish(IF r.threw THEN Threw ELSE deleteResult)
    /\ UNCHANGED << op, histVars, mapperVars >>

\* getTask, called by GET /tasks/:id.
GetRead ==
    /\ pc = "g_read"
    /\ \E ex \in Exits, err \in BOOLEAN, pad \in Pads :
         LET cmd == exportCommand(op.id)
             r   == Run(cmd, ex, err, pad, FALSE)
         IN  /\ Exec(cmd, r)
             /\ Finish(getTask(r))
    /\ UNCHANGED << op, histVars, mapperVars >>

\* getTasks, called by GET /tasks.
ListRead ==
    /\ pc = "l_read"
    /\ \E ex \in Exits, err \in BOOLEAN, pad \in Pads :
         LET cmd == exportCommand(NULL)
             r   == Run(cmd, ex, err, pad, FALSE)
         IN  /\ Exec(cmd, r)
             /\ Finish(getTasks(r))
    /\ UNCHANGED << op, histVars, mapperVars >>

\* The tool's exports catch up with its store.
Flush ==
    /\ view # store
    /\ view' = store
    /\ UNCHANGED << store, pc, op, histVars, result, httpStatus, invocations,
                    lastExec, mapperVars >>

Next ==
    \/ StartCreate
    \/ StartUpdate
    \/ StartDelete
    \/ StartGet
    \/ StartList
    \/ CreateWrite
    \/ CreateReadBack
    \/ CreateFallback
    \/ UpdateClearTags
    \/ UpdateWrite
    \/ UpdateReadBack
    \/ UpdateFallback
    \/ DeleteWrite
    \/ GetRead
    \/ ListRead
    \/ Flush

Spec == Init /\ [][Next]_vars

\* ------------------------------------------------------------------ the mapper alone

\* Records JSON.parse may hand convertTaskwarriorTask (its parameter is `any`):
\* each field present, empty or left out.
TwTasks ==
    [uuid        : {NULL, "", Uuids[1]},
     description : {NULL, "", "d1"},
     status      : {NULL, "pending", "completed"},
     project     : {NULL} \cup Projects,
     tags        : {NoTags, SomeTags({}), SomeTags({"t1"})}]

engineVars == << store, view, pc, op, taskId, retries, result, httpStatus,
                 invocations, readLog, listings, lastExec, restVars >>

MapInit ==
    /\ store = << >>
    /\ view = << >>
    /\ pc = "idle"
    /\ op = [kind |-> "none", id |-> NULL, req |-> NoReq, before |-> << >>]
    /\ taskId = NULL
    /\ retries = 0
    /\ result = NoResult
    /\ httpStatus = 0
    /\ invocations = << >>
    /\ readLog = << >>
    /\ listings = 0
    /\ lastExec = NoExec
    /\ now = 0
    /\ twTask \in TwTasks
    /\ mapped = NoResult
    /\ conn = NoConn
    /\ terminal = NoTerminal
    /\ taskrc = NoFile
    /\ synth = NoSynth
    /\ pair = NoPair

\* Time passes.
Tick ==
    /\ now < MaxNow
    /\ mapped = NoResult
    /\ now' = now + 1
    /\ UNCHANGED << engineVars, twTask, mapped >>

\* The mapper converts the record.
Convert ==
    /\ mapped = NoResult
    /\ mapped' = Returned(convertTaskwarriorTask(twTask, now))
    /\ UNCHANGED << engineVars, twTask, now >>

MapNext == Tick \/ Convert

SpecMapper == MapInit /\ [][MapNext]_vars

\* ------------------------------------------------------------------ the tool-config file

\* The directives of .taskrc, one per line.
DataLocation == "data.location=<dataDir>"

ConfirmationOff == "confirmation=no"

VerboseFlags == "verbose=blank,label,new-id,edit,special,project,sync,unwait,recur"

FileExists(f) == f.content # << >>

WriteFile(f, lines) == [content |-> lines, writes |-> f.writes + 1]

\* The constructor of TaskwarriorService creates the file when it is absent.
serviceTaskrc(f) ==
    IF ~FileExists(f) THEN WriteFile(f, << DataLocation, ConfirmationOff >>) ELSE f

\* The connection handler creates the file when it is absent.
bridgeTaskrc(f) ==
    IF ~FileExists(f)
    THEN WriteFile(f, << DataLocation, ConfirmationOff, VerboseFlags >>)
    ELSE f

\* What scripts/tasksh_terminal.sh leaves behind when it ran before the server.
ScriptFile == [content |-> << DataLocation, ConfirmationOff, VerboseFlags >>,
               writes |-> 0]

\* ------------------------------------------------------------------ the session bridge

\* Messages a client sends on one connection.
MaxMsgs == 2

\* Chunks the subprocess prints (stdout and stderr together) on one connection.
MaxData == 1

Env(type, body) == [type |-> type, body |-> body]

Welcome == Env("output", "Welcome to Taskwarrior Shell (tasksh)")

Farewell == Env("output", "Taskwarrior shell session ended. Refresh to start a new session.")

Failed == Env("error", "Failed to process command")

\* A command is its words, which single spaces separate; a line written to the
\* subprocess is the words before its newline.
Commands == { << "list" >>, << "add" >>, << "add", "milk" >>, << "1", "done" >> }

\* Messages of the client: a command, a text to parse, or one the handler
\* cannot process (JSON.parse or command.includes throws).
Messages ==
    { [type |-> "command", command |-> c] : c \in Commands }
        \cup { [type |-> "parse", text |-> "buy milk"], [type |-> "garbage"] }

\* What parseCommand resolves to: the completion, or "" when the service failed.
Completions == { << "add", "milk" >>, << >> }

\* server not started (no module of it loaded)
Down == [phase |-> "down"]

\* wss.on("connection"): the state of the handler's closure after it ran.
\* sent is every envelope handed to ws.send, with the socket's readyState and
\* the value of terminated (after) at that moment;
\* stdin is every line handed to tasksh.stdin.write, with the ordinal of the
\* message it came from and the value of terminated (after) at that moment; handled is every message the handler was called with.
connection ==
    [phase      |-> "live",
     terminated |-> FALSE,
     readyState |-> "OPEN",
     peerClosed |-> FALSE,
     tasksh     |-> "running",
     spawns     |-> 1,
     kills      |-> 0,
     closes     |-> 0,
     sent       |-> << [env |-> Welcome, readyState |-> "OPEN", after |-> FALSE] >>,
     stdin      |-> << >>,
     timers     |-> << >>,
     parses     |-> << >>,
     handled    |-> << >>,
     data       |-> 0,
     exitSeen   |-> FALSE]

\* ws.send(JSON.stringify(env)): a socket that is not OPEN transmits nothing.
send(c, env) ==
    [c EXCEPT !.sent = Append(@, [env |-> env, readyState |-> c.readyState,
                                  after |-> c.terminated])]

\* tasksh.stdin.write(line + "\n") on behalf of message n.
write(c, line, n) ==
    [c EXCEPT !.stdin = Append(@, [line |-> line, of |-> n, after |-> c.terminated])]

\* ws.close(): starts the closing handshake of an open socket.
close(c) ==
    [c EXCEPT !.closes = @ + 1,
              !.readyState = IF @ = "OPEN" THEN "CLOSING" ELSE @]

\* tasksh.kill()
kill(c) == [c EXCEPT !.kills = @ + 1,
                     !.tasksh = IF @ = "running" THEN "killed" ELSE @]

\* tasksh.stdout.on('data')
stdoutOnData(c, output) ==
    IF ~c.terminated THEN send(c, Env("output", output)) ELSE c

\* tasksh.stderr.on('data')
stderrOnData(c, error) ==
    IF ~c.terminated THEN send(c, Env("error", error)) ELSE c

\* A variant of taskshOnClose that starts a new shell for the connection.
taskshOnCloseRespawn(c) ==
    [c EXCEPT !.tasksh = "running", !.spawns = @ + 1, !.terminated = FALSE]

\* tasksh.on('close'): the farewell, the flag, then the channel.
taskshOnClose(c) ==
    LET d == [c EXCEPT !.tasksh = "closed"]
    IN  IF ~c.terminated
        THEN close([send(d, Farewell) EXCEPT !.terminated = TRUE, !.exitSeen = TRUE])
        ELSE d

\* A variant of onCommand that writes the first word of the command only.
onCommandFirstWord(c, command, n) == write(c, << command[1] >>, n)

\* A variant of onCommand that writes every command as it came.
onCommandVerbatim(c, command, n) == write(c, command, n)

\* The command branch of the message handler.  command.includes(' ') is
\* having a second word; command.startsWith('add ') is a first word "add" and
\* a second word; command.substring(4) is the words after the first.
onCommand(c, command, n) ==
    IF Len(command) > 1
    THEN IF command[1] = "add"
         THEN [write(c, << "add" >>, n)
                  EXCEPT !.timers = Append(@, [line |-> Tail(command), of |-> n])]
         ELSE write(c, command, n)
    ELSE write(c, command, n)

\* ws.on("message"), up to its await: message number n of the connection.
wsOnMessage(c, m) ==
    LET n == Len(c.handled) + 1
        d == [c EXCEPT !.handled = Append(@, [msg |-> m, live |-> ~c.terminated])]
    IN  IF c.terminated THEN d
        ELSE IF m.type = "command" THEN onCommand(d, m.command, n)
        ELSE IF m.type = "parse" THEN [d EXCEPT !.parses = Append(@, m.text)]
        ELSE send(d, Failed)

Remove(q, i) == SubSeq(q, 1, i - 1) \o SubSeq(q, i + 1, Len(q))

\* ws.on("message") after its await: parseCommand resolved for the i-th
\* pending text.  throws: ws.send raised on a socket that is not OPEN (the
\* library's behaviour before version 8), which the handler's catch receives.
parseResolved(c, i, command, throws) ==
    LET d == send([c EXCEPT !.parses = Remove(@, i)], Env("command", command))
    IN  IF throws /\ ~d.terminated THEN send(d, Failed) ELSE d

\* The callback of setTimeout(..., 100): timers of one delay fire in order.
timerFired(c) ==
    write([c EXCEPT !.timers = Tail(@)], Head(c.timers).line, Head(c.timers).of)

\* A variant of wsOnClose that kills the subprocess whatever the flag says.
wsOnCloseKillAlways(c) ==
    kill([c EXCEPT !.readyState = "CLOSED", !.terminated = TRUE])

\* ws.on("close")
wsOnClose(c) ==
    LET d == [c EXCEPT !.readyState = "CLOSED"]
    IN  IF ~c.terminated THEN kill([d EXCEPT !.terminated = TRUE]) ELSE d

\* The engine and the mapper at rest, in the specifications of the other
\* components.
AtRest ==
    /\ store = << >>
    /\ view = << >>
    /\ pc = "idle"
    /\ op = [kind |-> "none", id |-> NULL, req |-> NoReq, before |-> << >>]
    /\ taskId = NULL
    /\ retries = 0
    /\ result = NoResult
    /\ httpStatus = 0
    /\ invocations = << >>
    /\ readLog = << >>
    /\ listings = 0
    /\ lastExec = NoExec
    /\ now = 0
    /\ twTask = ExportJson([uuid |-> NULL, description |-> NULL, status |-> NULL,
                            project |-> NULL, tags |-> {}])
    /\ mapped = NoResult

restOfBridge == << store, view, pc, op, taskId, retries, result, httpStatus,
                   invocations, readLog, listings, lastExec, now, twTask, mapped,
                   terminal, synth, pair >>

BridgeInit ==
    /\ AtRest
    /\ conn = Down
    /\ taskrc \in { NoFile, ScriptFile }
    /\ terminal = NoTerminal
    /\ synth = NoSynth
    /\ pair = NoPair

Live == conn.phase = "live"

\* The server starts: routes.ts is loaded and constructs the service.
Startup ==
    /\ conn = Down
    /\ conn' = NoConn
    /\ taskrc' = serviceTaskrc(taskrc)
    /\ UNCHANGED restOfBridge

\* The server stops while no terminal is connected.
Shutdown ==
    /\ conn = NoConn
    /\ conn' = Down
    /\ UNCHANGED << taskrc, restOfBridge >>

\* A client connects: the handler of wss.on("connection") runs.
Connect ==
    /\ conn = NoConn
    /\ conn' = connection
    /\ taskrc' = bridgeTaskrc(taskrc)
    /\ UNCHANGED restOfBridge

Step(c) == conn' = c /\ UNCHANGED << taskrc, restOfBridge >>

\* The subprocess prints until its streams close.
Stdout ==
    /\ Live /\ conn.tasksh # "closed" /\ conn.data < MaxData
    /\ Step([stdoutOnData(conn, "out") EXCEPT !.data = @ + 1])

Stderr ==
    /\ Live /\ conn.tasksh # "closed" /\ conn.data < MaxData
    /\ Step([stderrOnData(conn, "err") EXCEPT !.data = @ + 1])

\* The subprocess has exited (by itself or killed) and its streams closed.
TaskshClose ==
    /\ Live /\ conn.tasksh # "closed"
    /\ Step(taskshOnClose(conn))

\* A message of the client arrives: none follows the client's own close.
Message ==
    /\ Live /\ Len(conn.handled) < MaxMsgs
    /\ conn.readyState # "CLOSED" /\ ~conn.peerClosed
    /\ \E m \in Messages : Step(wsOnMessage(conn, m))

\* The completion service answers one of the pending texts.
ParseResolved ==
    /\ Live
    /\ \E i \in 1..Len(conn.parses), command \in Completions,
          throws \in IF conn.readyState = "OPEN" THEN {FALSE} ELSE BOOLEAN :
            Step(parseResolved(conn, i, command, throws))

TimerFired ==
    /\ Live /\ conn.timers # << >>
    /\ Step(timerFired(conn))

\* The client closes its end: the socket leaves OPEN at once, the handler of
\* 'close' runs later.
PeerClose ==
    /\ Live /\ conn.readyState = "OPEN"
    /\ Step([conn EXCEPT !.readyState = "CLOSING", !.peerClosed = TRUE])

\* The closing handshake is over (whoever began it): 'close' is emitted.
WsClose ==
    /\ Live /\ conn.readyState = "CLOSING"
    /\ Step(wsOnClose(conn))

\* Both ends are gone and nothing of the connection is pending.
Forget ==
    /\ Live /\ conn.readyState = "CLOSED" /\ conn.tasksh = "closed"
    /\ conn.timers = << >> /\ conn.parses = << >>
    /\ Step(NoConn)

BridgeNext ==
    \/ Startup
    \/ Shutdown
    \/ Connect
    \/ Stdout
    \/ Stderr
    \/ TaskshClose
    \/ Message
    \/ ParseResolved
    \/ TimerFired
    \/ PeerClose
    \/ WsClose
    \/ Forget

SpecBridge == BridgeInit /\ [][BridgeNext]_vars

\* ------------------------------------------------------------------ claims

\* Shorthands over the history of the operation in progress.
Done == pc = "done"

\* The keyed read-backs (exports with a uuid:<key> filter) the operation ran.
KeyedReads ==
    { i \in 1..Len(invocations) :
        invocations[i][1].k = "export" /\ invocations[i][1].v # NULL }

\* Every keyed read-back of the loop completed and found nothing.
AllMissed(n) == Len(readLog) = n /\ \A i \in 1..n : readLog[i] = "miss"

\* The records the last run printed (an export's JSON array).
Printed == lastExec.stdout.body.tasks

\* The fallback listing completed without error.
Listed == listings = 1 /\ ~lastExec.threw

\* The position of updateTask's main invocation among its invocations.
MainIdx == IF op.req.tags # NoTags THEN 2 ELSE 1

\* The store holds a task with identifier id.
InStore(id) == \E i \in 1..Len(store) : store[i].uuid = id

\* C1 (as claimed): when createTask's write reported a transient id and none
\* of the keyed read-backs found the record, the returned record has the
\* request's description and project exactly and carries a degraded flag.
C1_DegradedCreate ==
    (Done /\ op.kind = "create" /\ taskId # NULL /\ AllMissed(5)
          /\ result.kind = "task")
      => /\ result.task.description = op.req.description
         /\ result.task.project = op.req.project
         /\ "degraded" \in DOMAIN result.task
         /\ result.task.degraded = TRUE

\* C2: createTask and updateTask issue at most 5 keyed read-backs for one
\* operation, and reach the fallback listing only after the 5th.
C2_ReadBackBound ==
    /\ Cardinality(KeyedReads) <= 5
    /\ (op.kind \in {"create", "update"} /\ listings > 0)
         => Cardinality(KeyedReads) = 5

C2_Witness ==
    /\ Done /\ op.kind = "update" /\ listings = 1
    /\ Cardinality(KeyedReads) = 5

\* C3: when the k-th keyed read-back is the first to find the record, the
\* operation returns exactly the record that read printed, reads no further,
\* never lists, and has consumed k - 1 retries (none when k = 1).
C3_FirstHitReturned ==
    \A k \in 1..Len(readLog) :
        (op.kind \in {"create", "update"} /\ readLog[k] = "hit")
          => /\ Done
             /\ Len(readLog) = k
             /\ listings = 0
             /\ retries = 5 - (k - 1)
             /\ result.kind = "task"
             /\ result.task.id = Printed[1].uuid
             /\ result.task.description = Printed[1].description
             /\ result.task.status = Printed[1].status
             /\ result.task.project = Printed[1].project
             /\ result.task.tagsList = TagSet(Printed[1].tags)

C3_Witness ==
    /\ Done /\ op.kind = "create"
    /\ readLog = << "miss", "miss", "hit" >>
    /\ result.kind = "task" /\ result.task.id = Uuids[Len(store)]

\* The case of C4: the write succeeded, every keyed read-back and the fallback
\* listing completed, and none of them printed the record written.
C4_Case ==
    /\ Done /\ Listed
    /\ \/ /\ op.kind = "create" /\ taskId # NULL /\ AllMissed(5)
          /\ \A i \in 1..Len(Printed) : Printed[i].uuid # store[Len(store)].uuid
       \/ /\ op.kind = "update" /\ AllMissed(5)
          /\ \A i \in 1..Len(Printed) : Printed[i].uuid # op.id

\* The record built from the request: its fields are the request's, its
\* identifier the transient id (create) or the caller's (update), and a
\* description or status the update leaves out gets a placeholder.
C4_FromRequest ==
    IF op.kind = "create"
    THEN [id |-> taskId, description |-> op.req.description,
          project |-> op.req.project, tags |-> op.req.tags, status |-> "pending"]
    ELSE [id |-> op.id,
          description |-> IF op.req.description = NULL THEN "Unknown task"
                          ELSE op.req.description,
          project |-> op.req.project, tags |-> op.req.tags,
          status |-> IF op.req.status = NULL THEN "pending" ELSE op.req.status]

\* C4 (as claimed): in that case the operation returns a Task record built
\* from the request and does not fail.
C4_Original == C4_Case => result = Returned(C4_FromRequest)

\* C4 (amended): in that case the operation does not fail and returns a Task
\* record: the one built from the request, or, for a create, a listed task
\* whose description is the request's and whose project is the request's
\* when the request names one.
C4_Amended ==
    C4_Case =>
      /\ result.kind = "task"
      /\ \/ result = Returned(C4_FromRequest)
         \/ /\ op.kind = "create"
            /\ \E i \in 1..Len(Printed) : result.task.id = Printed[i].uuid
            /\ result.task.description = op.req.description
            /\ (op.req.project # NULL => result.task.project = op.req.project)

C4_Witness ==
    /\ C4_Case /\ op.kind = "create"
    /\ result.kind = "task" /\ result.task.id = taskId
    /\ Len(store) > 1

\* C5 (as claimed): a Task the mapper hands back carries the stable identifier
\* the tool reported, the caller's identifier or the write's transient id,
\* never one the engine made up.
C5_NoInventedId ==
    mapped.kind = "task"
      => mapped.task.id \in ({twTask.uuid, op.id, taskId} \ {NULL, ""})

\* C6 (as claimed): a tag update of an existing task runs the clear-all-tags
\* invocation before the one that applies the new tags, and the record it
\* returns has exactly the requested tags, lagging reads included.
C6_ExactTags ==
    (Done /\ op.kind = "update" /\ op.req.tags # NoTags /\ InStore(op.id)
          /\ result.kind = "task")
      => /\ invocations[1] = clearTagsCommand(op.id)
         /\ invocations[2][1].k # "export"
         /\ TagSet(result.task.tags) = TagSet(op.req.tags)

\* C7: for an update to status "completed" the main invocation is the done
\* sub-command on the task id, with no status:completed token and no modify;
\* for "deleted" it is the delete sub-command in the same way.
C7_CompletionSubcommand ==
    (op.kind = "update" /\ Len(invocations) >= MainIdx
       /\ op.req.status \in {"completed", "deleted"})
      => LET main == invocations[MainIdx]
         IN  /\ main[1].k = (IF op.req.status = "completed" THEN "done" ELSE "delete")
             /\ main[1].v = op.id
             /\ \A j \in 1..Len(main) : main[j].k \notin {"modify", "status"}

C7_Witness ==
    /\ op.kind = "update" /\ op.req.status = "completed"
    /\ op.req.tags # NoTags /\ op.req.description # NULL
    /\ Len(invocations) >= 2 /\ invocations[2][1].k = "done"

\* C8 (as claimed): an update of an identifier the store does not hold, whose
\* invocations do not fail, ends in NotFound: no record, and a 404.
C8_UpdateAbsentNotFound ==
    (Done /\ op.kind = "update" /\ ~InStore(op.id) /\ result.kind # "error")
      => result.kind = "null" /\ httpStatus = 404

\* C9 (as claimed): a delete of an identifier the store does not hold, whose
\* invocation does not fail, ends in NotFound: failure reported, and a 404.
C9_DeleteAbsentNotFound ==
    (Done /\ op.kind = "delete" /\ ~InStore(op.id) /\ result.kind # "error")
      => result = ReturnedBool(FALSE) /\ httpStatus = 404

\* C10: a run that exits zero returns the trimmed stdout whatever stderr
\* holds; a run that cannot be spawned or exits non-zero throws, and the
\* operation around it returns no result.
C10_ExecuteCommand ==
    Len(invocations) > 0
      => /\ lastExec.exit = 0
              => /\ ~lastExec.threw
                 /\ lastExec.out.body = lastExec.stdout.body
                 /\ lastExec.out.lead = 0 /\ lastExec.out.trail = 0
         /\ lastExec.exit # 0
              => /\ lastExec.threw
                 /\ Done /\ result.kind = "error" /\ httpStatus = 500

C10_Witness ==
    /\ Done /\ result.kind = "task"
    /\ lastExec.exit = 0 /\ lastExec.stderr
    /\ lastExec.stdout.lead = 1 /\ lastExec.stdout.trail = 1

\* ------------------------------------------------------------------ claims of the bridge

\* Positions of the envelopes of the connection that equal env.
SentAt(env) == { i \in 1..Len(conn.sent) : conn.sent[i].env = env }

\* C11: once the session is Terminated the bridge sends no further envelope
\* of any type on the connection: every envelope it handed to the channel was
\* handed over while terminated was still false.
C11_NoSendAfterTerminated ==
    Live => \A i \in 1..Len(conn.sent) : ~conn.sent[i].after

\* C12: when the subprocess exit was observed while the session was Running,
\* the bridge has sent exactly one farewell envelope, the farewell is the last
\* envelope sent on the connection, and the bridge closed the channel only
\* with the farewell sent.
C12_FarewellLast ==
    /\ (Live /\ conn.exitSeen) =>
          /\ Cardinality(SentAt(Farewell)) = 1
          /\ conn.sent[Len(conn.sent)].env = Farewell
    /\ (Live /\ conn.closes > 0) => SentAt(Farewell) # {}

\* C13: a connection has exactly one subprocess for its whole life: one was
\* spawned when the connection was established and never another, and a
\* Terminated session never returns to Running.
C13_OneSubprocess ==
    /\ [](Live => conn.spawns = 1)
    /\ [][(Live /\ conn.terminated /\ conn'.phase = "live")
             => (conn'.terminated /\ conn'.spawns = conn.spawns
                 /\ conn'.tasksh # "running")]_vars

\* The subprocess exited, the session is Terminated, and messages, output and
\* the transport's close have all been handled since the spawn.
C13_Witness ==
    /\ Live /\ conn.terminated /\ conn.tasksh = "closed"
    /\ conn.readyState = "CLOSED"
    /\ Len(conn.handled) = MaxMsgs

\* The messages handled while Running whose command is "add " and a text.
AddMessages ==
    { n \in 1..Len(conn.handled) :
        /\ conn.handled[n].live
        /\ conn.handled[n].msg.type = "command"
        /\ Len(conn.handled[n].msg.command) > 1
        /\ conn.handled[n].msg.command[1] = "add" }

\* Positions of the lines written to the subprocess for message n.
WritesOf(n) == { i \in 1..Len(conn.stdin) : conn.stdin[i].of = n }

\* C14: for every command "add <text>" the bridge writes the line "add"
\* first and the text as a second, separate line once the delay has passed:
\* never the whole command as one line, never the text before "add".
C14_AddInTwoSteps ==
    Live => \A n \in AddMessages :
        LET command == conn.handled[n].msg.command
            W == WritesOf(n)
            pending == { k \in 1..Len(conn.timers) : conn.timers[k].of = n }
        IN  /\ \A i \in W : conn.stdin[i].line # command
            /\ \E i \in W : /\ conn.stdin[i].line = << "add" >>
                            /\ \A j \in W : j >= i
            /\ \/ /\ Cardinality(W) = 1
                  /\ \E k \in pending : conn.timers[k].line = Tail(command)
               \/ /\ Cardinality(W) = 2
                  /\ pending = {}
                  /\ \E j \in W : /\ conn.stdin[j].line = Tail(command)
                                  /\ \A i \in W : i <= j

\* An add command whose two lines have both been written.
C14_Witness ==
    Live /\ \E n \in AddMessages : Cardinality(WritesOf(n)) = 2

\* C17: after any sequence of service start-ups and client connections the
\* tool-config file has been written at most once, and when it exists it
\* holds the three directives: data location, confirmation off, verbose flags.
C17_ConfigFile ==
    /\ taskrc.writes <= 1
    /\ taskrc.content # << >> =>
          \A directive \in { DataLocation, ConfirmationOff, VerboseFlags } :
              \E i \in 1..Len(taskrc.content) : taskrc.content[i] = directive

\* ------------------------------------------------------------------ the terminal client

\* Keys the user presses while the component is mounted.
MaxKeys == 3

\* Envelopes the server delivers while the component is mounted.
MaxEnvs == 1

maxReconnectAttempts == 5

\* A string of the client is the sequence of its characters.
Chars == { "a", " " }

Keys == Chars \cup { "Enter", "Backspace", "ArrowUp", "ArrowDown" }

\* The command an envelope of type "command" suggests.
Suggestion == << "a", "a" >>

Envelopes == { Env("output", "out"), Env("command", Suggestion), Env("error", "err") }

RECURSIVE trimStart(_)
trimStart(s) == IF s # << >> /\ Head(s) = " " THEN trimStart(Tail(s)) ELSE s

RECURSIVE trimEnd(_)
trimEnd(s) ==
    IF s # << >> /\ s[Len(s)] = " " THEN trimEnd(SubSeq(s, 1, Len(s) - 1)) ELSE s

\* String.prototype.trim
trim(s) == trimEnd(trimStart(s))

\* The values useState returns in the first render.
FirstRender ==
    [ws |-> NULL, inputBuffer |-> << >>, history |-> << >>, historyIndex |-> -1]

\* The component after its first render and the run of its effect.  The effect
\* has [prompt] as dependencies and nothing ever sets prompt, so it runs once:
\* the handlers it registers are closures of the first render, and what they
\* read of ws, inputBuffer, history and historyIndex is seen, not the state of
\* later renders.  reconnectAttempts is a variable of the effect itself.
\* socket is the readyState of the one WebSocket alive, timer whether a
\* reconnect is scheduled.  The rest is history: sent is every envelope the
\* client sent, enters every press of Enter (the buffer on screen and whether
\* a command went out), received every envelope handled, tries the calls of
\* connectWebSocket made by the reconnect timer since the last open, keys
\* the number of keys pressed and key the last of them.
mounted ==
    [phase |-> "mounted",
     ws |-> NULL, inputBuffer |-> << >>, history |-> << >>, historyIndex |-> -1,
     seen |-> FirstRender,
     reconnectAttempts |-> 0,
     socket |-> "CONNECTING",
     timer |-> FALSE,
     sent |-> << >>, enters |-> << >>, received |-> << >>,
     keys |-> 0, key |-> NULL, tries |-> 0]

\* socket.onopen
socketOnOpen(t) ==
    [t EXCEPT !.socket = "OPEN", !.reconnectAttempts = 0, !.ws = "socket", !.tries = 0]

\* A variant of socketOnClose that always schedules a reconnect.
socketOnCloseForever(t) ==
    [t EXCEPT !.socket = "CLOSED", !.ws = NULL,
              !.reconnectAttempts = @ + 1, !.timer = TRUE]

\* socket.onclose
socketOnClose(t) ==
    LET u == [t EXCEPT !.socket = "CLOSED", !.ws = NULL]
    IN  IF t.reconnectAttempts < maxReconnectAttempts
        THEN [u EXCEPT !.reconnectAttempts = @ + 1, !.timer = TRUE]
        ELSE u

\* The callback of setTimeout(..., reconnectDelay): connectWebSocket().
reconnectTimer(t) ==
    [t EXCEPT !.timer = FALSE, !.socket = "CONNECTING", !.tries = @ + 1]

\* A variant of socketOnMessage that runs a suggested command at once.
socketOnMessageRun(t, data) ==
    [t EXCEPT !.received = Append(@, data),
              !.inputBuffer = << >>,
              !.sent = Append(@, Env("command", data.body))]

\* socket.onmessage
socketOnMessage(t, data) ==
    LET u == [t EXCEPT !.received = Append(@, data)]
    IN  IF data.type = "output" THEN [u EXCEPT !.inputBuffer = << >>]
        ELSE IF data.type = "command" THEN [u EXCEPT !.inputBuffer = data.body]
        ELSE IF data.type = "error" THEN [u EXCEPT !.inputBuffer = << >>]
        ELSE u

\* term.onKey: what the handler reads is the first render's (t.seen); what it
\* sets is the state.  ws.readyState is that of the socket alive.
onKey(t, key) ==
    LET s == t.seen
    IN  IF key = "ArrowUp" THEN
            IF Len(s.history) > 0 /\ s.historyIndex < Len(s.history) - 1
            THEN LET newIndex == s.historyIndex + 1
                 IN  [t EXCEPT !.historyIndex = newIndex,
                               !.inputBuffer = s.history[Len(s.history) - newIndex]]
            ELSE t
        ELSE IF key = "ArrowDown" THEN
            IF s.historyIndex > 0
            THEN LET newIndex == s.historyIndex - 1
                 IN  [t EXCEPT !.historyIndex = newIndex,
                               !.inputBuffer = s.history[Len(s.history) - newIndex]]
            ELSE IF s.historyIndex = 0
            THEN [t EXCEPT !.historyIndex = -1, !.inputBuffer = << >>]
            ELSE t
        ELSE IF key = "Backspace" THEN
            IF Len(s.inputBuffer) > 0
            THEN [t EXCEPT !.inputBuffer = SubSeq(s.inputBuffer, 1, Len(s.inputBuffer) - 1)]
            ELSE t
        ELSE IF key = "Enter" THEN
            LET command == trim(s.inputBuffer)
                open == s.ws # NULL /\ t.socket = "OPEN"
                u == [t EXCEPT !.inputBuffer = << >>,
                               !.enters = Append(@, [buffer |-> t.inputBuffer,
                                                     sent |-> command # << >> /\ open])]
            IN  IF command # << >>
                THEN [u EXCEPT !.history = Append(@, command),
                               !.historyIndex = -1,
                               !.sent = IF open THEN Append(@, Env("command", command))
                                        ELSE @]
                ELSE u
        ELSE [t EXCEPT !.inputBuffer = s.inputBuffer \o << key >>]

restOfTerminal == << store, view, pc, op, taskId, retries, result, httpStatus,
                     invocations, readLog, listings, lastExec, now, twTask, mapped,
                     conn, taskrc, synth, pair >>

TerminalInit ==
    /\ AtRest
    /\ conn = NoConn
    /\ taskrc = NoFile
    /\ terminal = NoTerminal
    /\ synth = NoSynth
    /\ pair = NoPair

Mounted == terminal.phase = "mounted"

\* The component renders and its effect runs: connectWebSocket().
Mount ==
    /\ terminal = NoTerminal
    /\ terminal' = mounted
    /\ UNCHANGED restOfTerminal

Handle(t) == terminal' = t /\ UNCHANGED restOfTerminal

SocketOpen ==
    /\ Mounted /\ terminal.socket = "CONNECTING"
    /\ Handle(socketOnOpen(terminal))

\* The transport closes, or the connection attempt fails.
SocketClose ==
    /\ Mounted /\ terminal.socket \in { "CONNECTING", "OPEN" }
    /\ Handle(socketOnClose(terminal))

ReconnectTimer ==
    /\ Mounted /\ terminal.timer
    /\ Handle(reconnectTimer(terminal))

Receive ==
    /\ Mounted /\ terminal.socket = "OPEN" /\ Len(terminal.received) < MaxEnvs
    /\ \E data \in Envelopes : Handle(socketOnMessage(terminal, data))

Key ==
    /\ Mounted /\ terminal.keys < MaxKeys
    /\ \E key \in Keys : Handle([onKey(terminal, key) EXCEPT !.keys = @ + 1, !.key = key])

TerminalNext ==
    \/ Mount
    \/ SocketOpen
    \/ SocketClose
    \/ ReconnectTimer
    \/ Receive
    \/ Key

SpecTerminal == TerminalInit /\ [][TerminalNext]_vars

\* ------------------------------------------------------------------ claims of the terminal

\* C15: no command the user entered is discarded without being sent, during
\* an outage of the transport or at any other time: whenever Enter cleared a
\* buffer that held a command, that command was sent on an open channel.
C15_NoCommandLost ==
    Mounted => \A i \in 1..Len(terminal.enters) :
        trim(terminal.enters[i].buffer) # << >> => terminal.enters[i].sent

\* The client has given up: disconnected, and no reconnect scheduled.
GaveUp == Mounted /\ terminal.socket = "CLOSED" /\ ~terminal.timer

\* C16: a close schedules a reconnect only while fewer than 5 reconnect
\* attempts have been made since the last successful open; after 5 such
\* attempts the next close schedules none and the client stays disconnected
\* for good.
C16_ReconnectCeiling ==
    /\ [](Mounted => terminal.tries <= 5)
    /\ [][(Mounted /\ ~terminal.timer /\ terminal'.timer) => terminal.tries < 5]_vars
    /\ [][GaveUp => GaveUp']_vars

\* Five reconnect attempts failed and the last close scheduled nothing.
C16_Witness == GaveUp /\ terminal.tries = 5

\* C18: when the client receives a command envelope it sets the input buffer
\* to the suggested command and sends nothing; the client sends only in a
\* step in which the user presses Enter.
C18_SuggestionNotSent ==
    /\ [][(Mounted /\ Len(terminal'.received) > Len(terminal.received)
             /\ terminal'.received[Len(terminal'.received)].type = "command")
            => /\ terminal'.inputBuffer = terminal'.received[Len(terminal'.received)].body
               /\ terminal'.sent = terminal.sent]_vars
    /\ [][(Mounted /\ terminal'.sent # terminal.sent)
            => Len(terminal'.enters) > Len(terminal.enters)]_vars

\* A suggestion has arrived and sits in the input buffer.
C18_Witness ==
    /\ Mounted /\ terminal.received # << >>
    /\ terminal.received[Len(terminal.received)].type = "command"
    /\ terminal.inputBuffer = Suggestion

\* ------------------------------------------------------------------ synthesis alone

\* Due values of requests: a day, a time of day (00:00, 10:30, 23:00) and,
\* for a string without a zone, the server's zone.
DueDays == { 1, 2 }

DueMinutes == { 0, 630, 1380 }

Zones == { -120, 0, 120 }

Due(kind, day, minute, zone) == [kind |-> kind, day |-> day, minute |-> minute, zone |-> zone]

\* What createTask may be handed: insertTaskSchema has due as z.date().
DateObjects == { Due("Date", d, m, 0) : d \in DueDays, m \in DueMinutes }

\* What the body of PATCH /tasks/:id may carry: any JSON string.
DueStrings ==
    { Due("iso", d, m, 0) : d \in DueDays, m \in DueMinutes }
      \cup { Due("date", d, 0, 0) : d \in DueDays }
      \cup { Due("local", d, m, z) : d \in DueDays, m \in DueMinutes, z \in Zones }
      \cup { Due("text", 0, m, 0) : m \in DueMinutes }

WithDue(req, due) == [req EXCEPT !.due = due]

SynthRequests ==
    { [phase |-> "request", kind |-> "create", id |-> NULL,
       req |-> WithDue(Req(d, NULL, NULL, NoTags), due),
       threw |-> FALSE, command |-> << >>] :
          d \in Descs, due \in DateObjects \cup { NoDue } }
      \cup
    { [phase |-> "request", kind |-> "update", id |-> Uuids[1],
       req |-> WithDue(Req(d, NULL, NULL, NoTags), due),
       threw |-> FALSE, command |-> << >>] :
          d \in { NULL, "d2" }, due \in DueStrings \cup { NoDue } }

restOfSynth == << store, view, pc, op, taskId, retries, result, httpStatus,
                  invocations, readLog, listings, lastExec, now, twTask, mapped,
                  conn, terminal, taskrc, pair >>

SynthInit ==
    /\ AtRest
    /\ conn = NoConn
    /\ terminal = NoTerminal
    /\ taskrc = NoFile
    /\ synth \in SynthRequests
    /\ pair = NoPair

\* What a synthesis leaves: the invocation, or the exception of toISOString.
Synthesized(threw, command) ==
    synth' = [synth EXCEPT !.phase = "done", !.threw = threw,
                           !.command = IF threw THEN << >> ELSE command]

\* createTask synthesizes its invocation.
SynthCreate ==
    /\ synth.phase = "request" /\ synth.kind = "create"
    /\ Synthesized(toISOStringThrows(synth.req.due), createTaskwarriorCommand(synth.req))
    /\ UNCHANGED restOfSynth

\* updateTask synthesizes its main invocation.
SynthUpdate ==
    /\ synth.phase = "request" /\ synth.kind = "update"
    /\ Synthesized(toISOStringThrows(synth.req.due), updateCommand(synth.id, synth.req))
    /\ UNCHANGED restOfSynth

SynthNext == SynthCreate \/ SynthUpdate

SpecSynth == SynthInit /\ [][SynthNext]_vars

\* ------------------------------------------------------------------ claims of the mapper and the synthesis

\* C19: every Task the engine hands back has a non-empty identifier and a
\* non-empty description, whatever record the tool exported.
C19_NonEmptyFields ==
    mapped.kind = "task"
      => /\ mapped.task.id \notin {NULL, ""}
         /\ mapped.task.description \notin {NULL, ""}

\* C20: for every create or update request that carries a due value, one with
\* a time of day included, synthesis does not fail and the invocation has the
\* due value as one component due:YYYY-MM-DD, a date and nothing more.
C20_DueDateOnly ==
    (synth.phase = "done" /\ synth.req.due.kind # "none")
      => /\ ~synth.threw
         /\ Cardinality({ i \in 1..Len(synth.command) : synth.command[i].k = "due" }) = 1
         /\ \A i \in 1..Len(synth.command) :
               synth.command[i].k = "due"
                 => \E j \in 1..Len(Dates) : synth.command[i].v = Dates[j]

\* ------------------------------------------------------------------ claims of the engine, continued

\* The operation returned a task that the fallback listing printed.
ReturnedListed ==
    /\ Done /\ Listed /\ result.kind = "task"
    /\ \E i \in 1..Len(Printed) : Printed[i].uuid = result.task.id

\* C21: the fallback listing is made once, after exactly five keyed
\* read-backs that found nothing.  A listed task createTask returns has the
\* request's description and, when the request names a project, its project;
\* a task updateTask returns from there has the requested identifier.
C21_FallbackMatch ==
    /\ listings <= 1
    /\ listings = 1 => AllMissed(5)
    /\ (Done /\ AllMissed(5)) => listings = 1
    /\ (ReturnedListed /\ op.kind = "create")
          => /\ result.task.description = op.req.description
             /\ (op.req.project # NULL => result.task.project = op.req.project)
    /\ (Done /\ Listed /\ op.kind = "update" /\ result.kind = "task")
          => result.task.id = op.id

\* createTask returned a listed task for a request that names a project, with
\* another task in the store.
C21_Witness ==
    /\ ReturnedListed /\ op.kind = "create" /\ op.req.project # NULL
    /\ Len(store) > 1

\* ------------------------------------------------------------------ claims of the bridge, continued

\* C22: whichever of the subprocess's exit and the transport's close is
\* observed first terminates the session and ends the other side: an observed
\* exit closes the channel, an observed transport close kills the subprocess,
\* and one session sees at most one kill or close.
C22_WhicheverFirst ==
    Live =>
      /\ conn.kills + conn.closes <= 1
      /\ conn.terminated <=> conn.kills + conn.closes = 1
      /\ (conn.tasksh = "closed" \/ conn.readyState = "CLOSED") => conn.terminated
      /\ conn.exitSeen => (conn.closes = 1 /\ conn.readyState # "OPEN")
      /\ (conn.terminated /\ ~conn.exitSeen)
            => (conn.kills = 1 /\ conn.tasksh # "running")

\* The transport's close was observed first and killed the subprocess, whose
\* exit has been handled since.
C22_Witness ==
    /\ Live /\ conn.terminated /\ ~conn.exitSeen
    /\ conn.kills = 1 /\ conn.tasksh = "closed"

\* The messages handled while Running that carry a command other than "add "
\* and a text.
PlainMessages ==
    { n \in 1..Len(conn.handled) :
        /\ conn.handled[n].live
        /\ conn.handled[n].msg.type = "command"
        /\ n \notin AddMessages }

\* C23: for every command received while Running that is not "add " and a
\* text, one word or several, the bridge makes exactly one write to the
\* subprocess: the line of the command as it came.
C23_Verbatim ==
    Live => \A n \in PlainMessages :
        /\ Cardinality(WritesOf(n)) = 1
        /\ \A i \in WritesOf(n) : conn.stdin[i].line = conn.handled[n].msg.command
        /\ \A k \in 1..Len(conn.timers) : conn.timers[k].of # n

\* A command of several words that is not an add has been written.
C23_Witness ==
    Live /\ \E n \in PlainMessages :
        /\ Len(conn.handled[n].msg.command) > 1
        /\ WritesOf(n) # {}

\* C26: the two lines written for one "add <text>" are adjacent in the
\* subprocess's input: no line of another command of the connection is
\* written between the "add" line and the text.
C26_AddAdjacent ==
    Live => \A n \in AddMessages :
        \A i, j \in WritesOf(n) : i < j => j = i + 1

\* C27: the bridge writes nothing to the subprocess's stdin once the session
\* is Terminated: every line was written while terminated was still false,
\* the delayed text of an add included.
C27_NoWriteAfterTerminated ==
    Live => \A i \in 1..Len(conn.stdin) : ~conn.stdin[i].after

\* ------------------------------------------------------------------ claims of the terminal, continued

\* A step in which the user presses Enter.
EnterStep == Mounted /\ Len(terminal'.enters) = Len(terminal.enters) + 1

\* C24: Enter on a buffer whose trimmed text is not empty, with the channel
\* open, sends exactly one command envelope with the trimmed text, appends the
\* text to the history, resets the history index and clears the buffer; on a
\* buffer whose trimmed text is empty it sends nothing and leaves the history.
C24_Enter ==
    [][EnterStep =>
         IF trim(terminal.inputBuffer) # << >>
         THEN terminal.socket = "OPEN" =>
                /\ terminal'.sent =
                      Append(terminal.sent, Env("command", trim(terminal.inputBuffer)))
                /\ terminal'.history = Append(terminal.history, trim(terminal.inputBuffer))
                /\ terminal'.historyIndex = -1
                /\ terminal'.inputBuffer = << >>
         ELSE /\ terminal'.sent = terminal.sent
              /\ terminal'.history = terminal.history]_vars

\* The non-empty trimmed commands entered with Enter, in order.
EnteredCommands ==
    LET entered == SelectSeq(terminal.enters, LAMBDA e : trim(e.buffer) # << >>)
    IN  [i \in 1..Len(entered) |-> trim(entered[i].buffer)]

\* A step in which the user presses an arrow key.
ArrowStep ==
    /\ Mounted /\ terminal'.keys = terminal.keys + 1
    /\ terminal'.key \in { "ArrowUp", "ArrowDown" }

\* C25: the history is the sequence of non-empty trimmed commands entered
\* with Enter, in order, and the arrow keys never change it; the history index
\* stays between -1 and length(history) - 1, and right after an arrow key the
\* buffer is the entry the index points at, or empty at -1.
C25_History ==
    /\ [](Mounted =>
            /\ terminal.history = EnteredCommands
            /\ terminal.historyIndex \in -1..(Len(terminal.history) - 1))
    /\ [][ArrowStep =>
            /\ terminal'.history = terminal.history
            /\ terminal'.inputBuffer =
                  IF terminal'.historyIndex = -1 THEN << >>
                  ELSE terminal'.history[Len(terminal'.history)
                                           - terminal'.historyIndex]]_vars

\* ------------------------------------------------------------------ claims of the engine, failures

\* updateTask's main invocation failed: it was the operation's last run.
MainWriteFailed ==
    /\ Done /\ op.kind = "update" /\ result = Threw
    /\ Len(invocations) = MainIdx /\ lastExec.threw

\* C28: when updateTask fails because its main invocation fails, the store is
\* as it was before the operation: the task's previous tags are still there.
C28_FailedUpdateKeepsStore == MainWriteFailed => store = op.before

\* The add ran and printed no "Created task <n>" message.
NoHint == lastExec.exit = 0 /\ lastExec.out.body.kind # "created"

\* C30: when the add succeeds but prints no "Created task <n>" message,
\* createTask throws at once, with no keyed read-back and no listing, and the
\* store holds the new task.
C30_NoHintFails ==
    /\ [][(pc = "c_write" /\ pc' # pc /\ NoHint')
            => /\ pc' = "done" /\ result' = Threw /\ httpStatus' = 500
               /\ store' = Append(store, store'[Len(store')])
               /\ store'[Len(store')].description = op.req.description]_vars
    /\ []((Done /\ op.kind = "create" /\ taskId = NULL)
            => /\ result = Threw
               /\ Len(invocations) = 1 /\ KeyedReads = {} /\ listings = 0)

C30_Witness ==
    /\ Done /\ op.kind = "create" /\ NoHint /\ result = Threw
    /\ Len(invocations) = 1 /\ Len(store) = Len(op.before) + 1

\* ------------------------------------------------------------------ two updates at once

\* Two PATCH /tasks/:id requests for the same task are served at the same
\* time: every `await this.executeCommand(...)` of updateTask yields to the
\* event loop, so the invocations of the two calls interleave, one at a time.
\* pair.calls[u] is where call u stands, pair.log the callers of the
\* writing invocations (modify -ALLTAGS, the main modify) in the order they ran.
Callers == {1, 2}

\* Updates that carry a tags array.
TagUpdates ==
    { Req(d, NULL, NULL, SomeTags(S)) : d \in {NULL, "d2"}, S \in SUBSET Tags }

\* The task both calls update.
Target == Uuids[1]

restOfUpdates == << view, pc, op, taskId, retries, result, httpStatus,
                    invocations, readLog, listings, lastExec, now, twTask, mapped,
                    conn, terminal, taskrc, synth >>

UpdatesInit ==
    /\ store \in { st \in InitStores : Len(st) > 0 }
    /\ view = store
    /\ pc = "idle"
    /\ op = [kind |-> "none", id |-> NULL, req |-> NoReq, before |-> << >>]
    /\ taskId = NULL
    /\ retries = 0
    /\ result = NoResult
    /\ httpStatus = 0
    /\ invocations = << >>
    /\ readLog = << >>
    /\ listings = 0
    /\ lastExec = NoExec
    /\ now = 0
    /\ twTask = ExportJson([uuid |-> NULL, description |-> NULL, status |-> NULL,
                            project |-> NULL, tags |-> {}])
    /\ mapped = NoResult
    /\ conn = NoConn
    /\ terminal = NoTerminal
    /\ taskrc = NoFile
    /\ synth = NoSynth
    /\ \E a, b \in TagUpdates :
         pair = [calls |-> << [pc |-> "u_clear", req |-> a, threw |-> FALSE],
                                 [pc |-> "u_clear", req |-> b, threw |-> FALSE] >>,
                    log   |-> << >>]

\* Call u runs the writing invocation cmd, which exits with ex: a failure is
\* thrown to the caller, otherwise the call goes on at step next.
Invoke(u, cmd, ex, next) ==
    LET threw == executeCommand(ex, EmptyStr, FALSE).threw
    IN  /\ store' = IF ex = 0 THEN ToolStore(cmd, store) ELSE store
        /\ pair' = [pair EXCEPT
                          !.calls[u].pc = IF threw THEN "done" ELSE next,
                          !.calls[u].threw = threw,
                          !.log = Append(@, u)]
        /\ UNCHANGED restOfUpdates

\* updateTask of call u: `modify -ALLTAGS`.
PairClearTags(u) ==
    /\ pair.calls[u].pc = "u_clear"
    /\ \E ex \in Exits : Invoke(u, clearTagsCommand(Target), ex, "u_write")

\* updateTask of call u: the main invocation.
PairWrite(u) ==
    /\ pair.calls[u].pc = "u_write"
    /\ \E ex \in Exits :
         Invoke(u, updateCommand(Target, pair.calls[u].req), ex, "u_read")

\* updateTask of call u: the read-backs and the fallback listing are exports,
\* which leave the store alone; the call returns or throws.
PairReadBack(u) ==
    /\ pair.calls[u].pc = "u_read"
    /\ \E threw \in BOOLEAN :
         pair' = [pair EXCEPT !.calls[u].pc = "done", !.calls[u].threw = threw]
    /\ UNCHANGED << store, restOfUpdates >>

UpdatesNext ==
    \E u \in Callers : PairClearTags(u) \/ PairWrite(u) \/ PairReadBack(u)

SpecUpdates == UpdatesInit /\ [][UpdatesNext]_vars

\* ------------------------------------------------------------------ claims of two updates at once

\* Call u has returned a task.
Returns(u) == pair.calls[u].pc = "done" /\ ~pair.calls[u].threw

\* The writing invocations of the two calls interleaved.
Interleaved ==
    \E i, j, k \in 1..Len(pair.log) :
        i < j /\ j < k /\ pair.log[i] = pair.log[k] /\ pair.log[j] # pair.log[i]

\* C29: when two updateTask calls on the same task, with tag sets A and B,
\* interleave and both return, the task's tags in the store are A or B, and
\* not a mixture or the union of the two.
C29_OneOfTheTwo ==
    (pair.calls # << >> /\ Returns(1) /\ Returns(2) /\ Interleaved)
      => \E u \in Callers : store[1].tags = TagSet(pair.calls[u].req.tags)

====
